---- MODULE Spec2Model ----
(***************************************************************************)
(* A model of UpToDate's compound pattern language (src/config.go):        *)
(* ParseCompoundPattern = TrimSpace, tokenizePattern, parseTokens.         *)
(*                                                                         *)
(* A Go string is a sequence of one-character strings; Go's 0-based        *)
(* indices are kept (At, Slice).  A nil error is the empty string "".      *)
(***************************************************************************)
EXTENDS Integers, Sequences, FiniteSets, TLC

\* ------------------------------------------------------------------ bounds
\* Words of a space-separated, parenthesis-free input (family 1 of Inputs).
MaxWords == 5
\* Pieces of a character-level input (family 2 of Inputs).
MaxPieces == 4
\* Pieces of the value of a single typed leaf (family 3 of Inputs).
MaxBody == 4
\* Words between the opening and closing parentheses of a nested input (family 4).
MaxNestWords == 3
\* Pieces of a leaf built from type words, a letter, colons and spaces (family 5).
MaxTyped == 4
\* Poll cycles of a run of the program.
MaxCycles == 2

\* ------------------------------------------------------- strings (Go slices)
At(s, k) == s[k + 1]
Slice(s, a, b) == SubSeq(s, a + 1, b)
HasAt(s, k, w) == k + Len(w) <= Len(s) /\ Slice(s, k, k + Len(w)) = w

MinOf(S) == CHOOSE x \in S : \A y \in S : x <= y
MaxOf(S) == CHOOSE x \in S : \A y \in S : y <= x

\* unicode.IsSpace restricted to the characters of the model's alphabet
IsSpace(c) == c \in {" ", "\t", "\n", "\r"}

\* strings.TrimSpace
TrimSpace(s) ==
  LET keep == {k \in 1..Len(s) : ~IsSpace(s[k])}
  IN  IF keep = {} THEN << >> ELSE SubSeq(s, MinOf(keep), MaxOf(keep))

\* Index with a fault (used to test C11): the last occurrence, not the first
Index_Last(s, c) ==
  LET hits == {k \in 0..(Len(s) - 1) : At(s, k) = c}
  IN  IF hits = {} THEN -1 ELSE MaxOf(hits)

\* strings.Index(s, c) for a one-character c: -1 when absent
Index(s, c) ==
  LET hits == {k \in 0..(Len(s) - 1) : At(s, k) = c}
  IN  IF hits = {} THEN -1 ELSE MinOf(hits)

UpperLetters == <<"A","B","C","D","E","F","G","H","I","J","K","L","M",
                  "N","O","P","Q","R","S","T","U","V","W","X","Y","Z">>
LowerLetters == <<"a","b","c","d","e","f","g","h","i","j","k","l","m",
                  "n","o","p","q","r","s","t","u","v","w","x","y","z">>
LowerChar(c) ==
  IF \E n \in 1..26 : UpperLetters[n] = c
  THEN LowerLetters[CHOOSE n \in 1..26 : UpperLetters[n] = c]
  ELSE c
\* strings.ToLower
ToLower(s) == [k \in 1..Len(s) |-> LowerChar(s[k])]

\* string literals of the source
sAND == <<"A","N","D">>
sOR == <<"O","R">>
sSpAND == <<" ","A","N","D">>
sSpOR == <<" ","O","R">>
sANDSp == <<"A","N","D"," ">>
sORSp == <<"O","R"," ">>
sString == <<"s","t","r","i","n","g">>
sRegex == <<"r","e","g","e","x">>
sCompound == <<"c","o","m","p","o","u","n","d">>

\* --------------------------------------------------------------- data types
\* type Token struct { Type, Value string }
Token(t, v) == [Type |-> t, Value |-> v]

\* a nil *CompoundPattern
NilCompound == [Operator |-> "nil", Patterns |-> << >>]
\* type CompoundPattern struct { Operator string; Patterns []PatternElement }
CompoundPattern(op, elems) == [Operator |-> op, Patterns |-> elems]
\* type PatternElement struct { Type, Pattern string; Compound *CompoundPattern }
PatternElement(t, p, c) == [Type |-> t, Pattern |-> p, Compound |-> c]
\* CompoundElement with a fault (used to test C12): Compound is left nil
CompoundElement_NilCompound(c) == PatternElement("compound", << >>, NilCompound)

\* PatternElement{Type: "compound", Compound: c}
CompoundElement(c) == PatternElement("compound", << >>, c)

\* ---------------------------------------------------------------- tokenizer
\* quoteChar := byte(0): no quote is open
NoQuote == ""

\* IsQuoteChar with a fault (used to test C7): only the double quote opens
\* a quoted span
IsQuoteChar_DoubleOnly(char) == char = "\""

\* char == '"' || char == '\''
IsQuoteChar(char) == char \in {"\"", "'"}

\* LeafBreak with a fault (used to test C27): the scan also stops at an AND
\* that no space follows
LeafBreak_Eager(pattern, i) ==
  \/ At(pattern, i) \in {"(", ")"}
  \/ HasAt(pattern, i, sSpAND) \/ HasAt(pattern, i, sAND)
  \/ HasAt(pattern, i, sSpOR) \/ HasAt(pattern, i, sORSp)

\* the leaf scan's break conditions outside quotes
LeafBreak(pattern, i) ==
  \/ At(pattern, i) \in {"(", ")"}
  \/ HasAt(pattern, i, sSpAND) \/ HasAt(pattern, i, sANDSp)
  \/ HasAt(pattern, i, sSpOR) \/ HasAt(pattern, i, sORSp)

\* the inner loop of tokenizePattern: the index at which the leaf scan stops
RECURSIVE ScanLeaf(_, _, _, _)
ScanLeaf(pattern, i, inQuotes, quoteChar) ==
  IF i >= Len(pattern) THEN i
  ELSE LET char == At(pattern, i)
       IN  IF IsQuoteChar(char) /\ quoteChar = NoQuote
             THEN ScanLeaf(pattern, i + 1, TRUE, char)
           ELSE IF char = quoteChar /\ inQuotes
             THEN ScanLeaf(pattern, i + 1, FALSE, NoQuote)
           ELSE IF ~inQuotes /\ LeafBreak(pattern, i)
             THEN i
           ELSE ScanLeaf(pattern, i + 1, inQuotes, quoteChar)

\* TokenizeIteration with a fault (used to test C25): the leaf scan's text
\* is a token also when nothing is left of it after trimming
TokenizeIteration_EmitEmpty(pattern, i) ==
  LET n == Len(pattern)
      stop == ScanLeaf(pattern, i, FALSE, NoQuote)
      value == TrimSpace(Slice(pattern, i, stop))
  IN  IF At(pattern, i) = " " \/ At(pattern, i) = "\t"
        THEN [emit |-> << >>, next |-> i + 1]
      ELSE IF At(pattern, i) = "("
        THEN [emit |-> <<Token("LPAREN", <<"(">>)>>, next |-> i + 1]
      ELSE IF At(pattern, i) = ")"
        THEN [emit |-> <<Token("RPAREN", <<")">>)>>, next |-> i + 1]
      ELSE IF HasAt(pattern, i, sSpAND) /\ (i + 4 >= n \/ At(pattern, i + 4) = " ")
        THEN [emit |-> <<Token("AND", sAND)>>, next |-> i + 4]
      ELSE IF HasAt(pattern, i, sSpOR) /\ (i + 3 >= n \/ At(pattern, i + 3) = " ")
        THEN [emit |-> <<Token("OR", sOR)>>, next |-> i + 3]
      ELSE IF HasAt(pattern, i, sANDSp)
        THEN [emit |-> <<Token("AND", sAND)>>, next |-> i + 4]
      ELSE IF HasAt(pattern, i, sORSp)
        THEN [emit |-> <<Token("OR", sOR)>>, next |-> i + 3]
      ELSE [emit |-> <<Token("PATTERN", value)>>, next |-> stop]

\* One iteration of tokenizePattern's outer loop at index i:
\* emit = the tokens appended (none or one), next = the index afterwards.
\* (The " AND" / " OR" branches are kept as written; the space they start
\* with is always consumed by the first branch.)
TokenizeIteration(pattern, i) ==
  LET n == Len(pattern)
      stop == ScanLeaf(pattern, i, FALSE, NoQuote)
      value == TrimSpace(Slice(pattern, i, stop))
  IN  IF At(pattern, i) = " " \/ At(pattern, i) = "\t"
        THEN [emit |-> << >>, next |-> i + 1]
      ELSE IF At(pattern, i) = "("
        THEN [emit |-> <<Token("LPAREN", <<"(">>)>>, next |-> i + 1]
      ELSE IF At(pattern, i) = ")"
        THEN [emit |-> <<Token("RPAREN", <<")">>)>>, next |-> i + 1]
      ELSE IF HasAt(pattern, i, sSpAND) /\ (i + 4 >= n \/ At(pattern, i + 4) = " ")
        THEN [emit |-> <<Token("AND", sAND)>>, next |-> i + 4]
      ELSE IF HasAt(pattern, i, sSpOR) /\ (i + 3 >= n \/ At(pattern, i + 3) = " ")
        THEN [emit |-> <<Token("OR", sOR)>>, next |-> i + 3]
      ELSE IF HasAt(pattern, i, sANDSp)
        THEN [emit |-> <<Token("AND", sAND)>>, next |-> i + 4]
      ELSE IF HasAt(pattern, i, sORSp)
        THEN [emit |-> <<Token("OR", sOR)>>, next |-> i + 3]
      ELSE [emit |-> IF value # << >> THEN <<Token("PATTERN", value)>> ELSE << >>,
            next |-> stop]

\* ------------------------------------------------------------------- parser
\* what a parse function returns: (*CompoundPattern, int, error)
Ret(tree, pos, err) == [tree |-> tree, pos |-> pos, err |-> err]

\* the quote stripping of parsePatternElement
StripQuotes(patternValue) ==
  IF Len(patternValue) >= 2
     /\ LET firstChar == At(patternValue, 0)
            lastChar == At(patternValue, Len(patternValue) - 1)
        IN  \/ firstChar = "\"" /\ lastChar = "\""
            \/ firstChar = "'" /\ lastChar = "'"
  THEN Slice(patternValue, 1, Len(patternValue) - 1)
  ELSE patternValue

\* parsePatternElement: [elem, err]
parsePatternElement(raw) ==
  LET pattern == TrimSpace(raw)
      colonIndex == Index(pattern, ":")
      possibleType == ToLower(TrimSpace(Slice(pattern, 0, colonIndex)))
      patternValue == TrimSpace(Slice(pattern, colonIndex + 1, Len(pattern)))
      none == PatternElement("", << >>, NilCompound)
  IN  IF pattern = << >>
        THEN [elem |-> none, err |-> "empty pattern element"]
      ELSE IF colonIndex > 0 /\ colonIndex < Len(pattern) - 1
              /\ (possibleType = sString \/ possibleType = sRegex)
        THEN IF patternValue = << >>
               THEN [elem |-> none, err |-> "empty pattern value"]
               ELSE [elem |-> PatternElement(IF possibleType = sString THEN "string" ELSE "regex",
                                             StripQuotes(patternValue), NilCompound),
                     err |-> ""]
      ELSE [elem |-> PatternElement("string", pattern, NilCompound), err |-> ""]

\* the loop condition of parseOrExpression
OrLoopCond(tokens, newPos) ==
  newPos < Len(tokens) /\ At(tokens, newPos).Type = "OR"

\* AndLoopCond with a fault (used to test C1): the AND loop also consumes OR
AndLoopCond_AnyOperator(tokens, newPos) ==
  newPos < Len(tokens) /\ At(tokens, newPos).Type \in {"AND", "OR"}

\* the loop condition of parseAndExpression
AndLoopCond(tokens, newPos) ==
  newPos < Len(tokens) /\ At(tokens, newPos).Type = "AND"

\* ParenRule with a fault (used to test C2): no OR inside parentheses
ParenRule_AndOnly == "AndExpression"

\* the function parsePrimary calls after an opening parenthesis
ParenRule == "OrExpression"

\* The three mutually recursive parse functions, as one recursive operator:
\* rule names the function ("OrExpression", "AndExpression", "Primary") or
\* the loop of one with all that follows it ("OrLoop", "AndLoop"; elements
\* is then the loop's slice, pos its newPos).  Every rule returns what its
\* function returns.
RECURSIVE parse(_, _, _, _)
parse(rule, tokens, pos, elements) ==
  CASE rule = "OrExpression" ->
         LET l == parse("AndExpression", tokens, pos, << >>)
         IN  IF l.err # "" THEN Ret(NilCompound, l.pos, l.err)
             ELSE parse("OrLoop", tokens, l.pos, <<CompoundElement(l.tree)>>)
    [] rule = "OrLoop" ->
         IF OrLoopCond(tokens, pos)
         THEN LET r == parse("AndExpression", tokens, pos + 1, << >>)
              IN  IF r.err # "" THEN Ret(NilCompound, r.pos, r.err)
                  ELSE parse("OrLoop", tokens, r.pos, Append(elements, CompoundElement(r.tree)))
         ELSE IF Len(elements) = 1 THEN Ret(elements[1].Compound, pos, "")
         ELSE Ret(CompoundPattern("OR", elements), pos, "")
    [] rule = "AndExpression" ->
         LET l == parse("Primary", tokens, pos, << >>)
         IN  IF l.err # "" THEN Ret(NilCompound, l.pos, l.err)
             ELSE parse("AndLoop", tokens, l.pos, <<CompoundElement(l.tree)>>)
    [] rule = "AndLoop" ->
         IF AndLoopCond(tokens, pos)
         THEN LET r == parse("Primary", tokens, pos + 1, << >>)
              IN  IF r.err # "" THEN Ret(NilCompound, r.pos, r.err)
                  ELSE parse("AndLoop", tokens, r.pos, Append(elements, CompoundElement(r.tree)))
         ELSE IF Len(elements) = 1 THEN Ret(elements[1].Compound, pos, "")
         ELSE Ret(CompoundPattern("AND", elements), pos, "")
    [] rule = "Primary" ->
         IF pos >= Len(tokens) THEN Ret(NilCompound, pos, "unexpected end of input")
         ELSE LET token == At(tokens, pos)
              IN  IF token.Type = "LPAREN"
                    THEN LET r == parse(ParenRule, tokens, pos + 1, << >>)
                         IN  IF r.err # "" THEN Ret(NilCompound, pos, r.err)
                             ELSE IF r.pos >= Len(tokens) \/ At(tokens, r.pos).Type # "RPAREN"
                               THEN Ret(NilCompound, pos, "expected closing parenthesis")
                             ELSE Ret(r.tree, r.pos + 1, "")
                  ELSE IF token.Type = "PATTERN"
                    THEN LET e == parsePatternElement(token.Value)
                         IN  IF e.err # "" THEN Ret(NilCompound, pos, e.err)
                             ELSE Ret(CompoundPattern("AND", <<e.elem>>), pos + 1, "")
                  ELSE Ret(NilCompound, pos, "unexpected token type")

parseOrExpression(tokens, pos) == parse("OrExpression", tokens, pos, << >>)
parseAndExpression(tokens, pos) == parse("AndExpression", tokens, pos, << >>)
parsePrimary(tokens, pos) == parse("Primary", tokens, pos, << >>)

\* parseTokens: [tree, err]
parseTokens(tokens) ==
  IF Len(tokens) = 0 THEN [tree |-> NilCompound, err |-> "no tokens to parse"]
  ELSE LET r == parseOrExpression(tokens, 0)
       IN  [tree |-> r.tree, err |-> r.err]

\* --------------------------------------------------------------- evaluation
\* Go's regexp package, for the patterns the inputs of the model can hold:
\* letters, quotes, ':', ' ', '.', '[' and backslash escapes.  A compiled
\* pattern is a sequence of atoms: a literal character or '.'.
Lit(c) == [any |-> FALSE, ch |-> c]
AnyChar == [any |-> TRUE, ch |-> ""]
\* the character \a denotes (the bell, which no content holds)
Bell == "BEL"

RECURSIVE regexpCompile(_)
\* regexp.Compile: [atoms, ok].  A backslash at the end is an error, a
\* backslash before a punctuation character makes it a literal and \a is the
\* bell; '[' opens a character class, which no pattern of the model closes
\* ("missing closing ]").
regexpCompile(p) ==
  IF p = << >> THEN [atoms |-> << >>, ok |-> TRUE]
  ELSE IF Head(p) = "\\"
    THEN IF Len(p) = 1 THEN [atoms |-> << >>, ok |-> FALSE]
         ELSE LET rest == regexpCompile(SubSeq(p, 3, Len(p)))
              IN  [atoms |-> <<Lit(IF p[2] = "a" THEN Bell ELSE p[2])>> \o rest.atoms,
                   ok |-> rest.ok]
  ELSE IF Head(p) = "[" THEN [atoms |-> << >>, ok |-> FALSE]
  ELSE LET rest == regexpCompile(Tail(p))
       IN  [atoms |-> <<(IF Head(p) = "." THEN AnyChar ELSE Lit(Head(p)))>> \o rest.atoms,
            ok |-> rest.ok]

\* the compiled pattern matches s at index p
MatchAt(atoms, s, p) ==
  /\ p + Len(atoms) <= Len(s)
  /\ \A j \in 1..Len(atoms) :
       IF atoms[j].any THEN At(s, p + j - 1) # "\n" ELSE At(s, p + j - 1) = atoms[j].ch

RECURSIVE FindAll(_, _, _, _)
\* the loop of Regexp.allMatches: the leftmost match at or after pos is
\* delivered and the search goes on at its end; an empty match is not
\* delivered right after the previous match, and moves pos by one
FindAll(atoms, s, pos, prevMatchEnd) ==
  LET hits == {p \in pos..Len(s) : MatchAt(atoms, s, p)}
  IN  IF pos > Len(s) \/ hits = {} THEN << >>
      ELSE LET start == MinOf(hits)
               end == start + Len(atoms)
               accept == ~(end = pos /\ start = prevMatchEnd)
           IN  (IF accept THEN <<Slice(s, start, end)>> ELSE << >>)
                 \o FindAll(atoms, s, IF end = pos THEN pos + 1 ELSE end, end)

\* re.FindAllString(content, -1)
FindAllString(atoms, s) == FindAll(atoms, s, 0, -1)

\* strings.Contains
StringsContains(s, substr) ==
  \E k \in 0..(Len(s) - Len(substr)) : Slice(s, k, k + Len(substr)) = substr

\* what an evaluation returns: (bool, []string, error); err is the
\* innermost message of the error's chain and at the element numbers of the
\* "error evaluating pattern element %d" wrapped around it, outermost first
EvalRet(found, matches, err) ==
  [found |-> found, matches |-> matches, err |-> err, at |-> << >>]

\* evaluateString with a fault (used to test C13): letter case is ignored
evaluateString_FoldCase(element, content) ==
  LET found == StringsContains(ToLower(content), ToLower(element.Pattern))
  IN  EvalRet(found, IF found THEN <<element.Pattern>> ELSE << >>, "")

\* case "string" of evaluatePatternElement
evaluateString(element, content) ==
  LET found == StringsContains(content, element.Pattern)
  IN  EvalRet(found, IF found THEN <<element.Pattern>> ELSE << >>, "")

\* evaluateRegex with a fault (used to test C14): a pattern that does not
\* compile is a pattern that does not match
evaluateRegex_NoCompileError(element, content) ==
  LET re == regexpCompile(element.Pattern)
      matches == FindAllString(re.atoms, content)
  IN  IF ~re.ok THEN EvalRet(FALSE, << >>, "")
      ELSE EvalRet(Len(matches) > 0, matches, "")

\* case "regex" of evaluatePatternElement
evaluateRegex(element, content) ==
  LET re == regexpCompile(element.Pattern)
      matches == FindAllString(re.atoms, content)
  IN  IF ~re.ok THEN EvalRet(FALSE, << >>, "invalid regex pattern")
      ELSE EvalRet(Len(matches) > 0, matches, "")

\* evaluatePatternElement for an element that is not a compound (the
\* compound case is in EvaluateCompoundPattern, which it calls back)
evaluatePatternElement(element, content) ==
  CASE element.Type = "string" -> evaluateString(element, content)
    [] element.Type = "regex" -> evaluateRegex(element, content)
    [] OTHER -> EvalRet(FALSE, << >>, "unsupported pattern element type")

\* strings.ToUpper of an operator name
UpperOperator(op) ==
  CASE op = "and" -> "AND" [] op = "or" -> "OR" [] OTHER -> op

\* AppendMatches with a fault (used to test C15): only the matches of the
\* children that were found are kept
AppendMatches_FoundOnly(allMatches, found, matches) ==
  IF found THEN allMatches \o matches ELSE allMatches

\* allMatches = append(allMatches, matches...), for a child that was found or not
AppendMatches(allMatches, found, matches) == allMatches \o matches

\* CombineResults with a fault (used to test C16): OR as AND
CombineResults_OrAsAnd(operator, results) ==
  \A j \in 1..Len(results) : results[j]

\* CombineResults with a fault (used to test C30): an AND of fewer than
\* two results is false
CombineResults_NeedsTwo(operator, results) ==
  IF operator = "AND"
    THEN Len(results) >= 2 /\ ~(\E j \in 1..Len(results) : ~results[j])
    ELSE \E j \in 1..Len(results) : results[j]

\* the switch of EvaluateCompoundPattern over "AND" and "OR"
CombineResults(operator, results) ==
  IF operator = "AND" THEN ~(\E j \in 1..Len(results) : ~results[j])
  ELSE \E j \in 1..Len(results) : results[j]

RECURSIVE CollectMatches(_, _)
\* the allMatches of EvaluateCompoundPattern's loop after the first k children
CollectMatches(each, k) ==
  IF k = 0 THEN << >>
  ELSE AppendMatches(CollectMatches(each, k - 1), each[k].found, each[k].matches)

\* WrapError with a fault (used to test C23): the element number is the
\* loop index
WrapError_ZeroBased(j, failure) ==
  [found |-> FALSE, matches |-> << >>, err |-> failure.err, at |-> <<j - 1>> \o failure.at]

\* return false, nil, fmt.Errorf("error evaluating pattern element %d: %w", i+1, err)
\* for child j = i+1, whose evaluation returned failure
WrapError(j, failure) ==
  [found |-> FALSE, matches |-> << >>, err |-> failure.err, at |-> <<j>> \o failure.at]

RECURSIVE EvaluateCompoundPattern(_, _)
\* EvaluateCompoundPattern, with evaluatePatternElement's compound case
\* inlined; each[j] is what evaluatePatternElement returns for child j, and
\* the loop returns at the first child with an error
EvaluateCompoundPattern(compound, content) ==
  IF compound = NilCompound THEN EvalRet(FALSE, << >>, "nil compound pattern")
  ELSE LET n == Len(compound.Patterns)
           each == [j \in 1..n |->
                      LET element == compound.Patterns[j]
                      IN  IF element.Type = "compound"
                            THEN IF element.Compound = NilCompound
                                   THEN EvalRet(FALSE, << >>, "nil nested compound pattern")
                                   ELSE EvaluateCompoundPattern(element.Compound, content)
                            ELSE evaluatePatternElement(element, content)]
           failed == {j \in 1..n : each[j].err # ""}
           results == [j \in 1..n |-> each[j].found]
       IN  IF failed # {} THEN WrapError(MinOf(failed), each[MinOf(failed)])
           ELSE IF UpperOperator(compound.Operator) \notin {"AND", "OR"}
             THEN EvalRet(FALSE, << >>, "unsupported compound operator")
           ELSE EvalRet(CombineResults(UpperOperator(compound.Operator), results),
                        CollectMatches(each, n), "")


\* ------------------------------------------------- ParseCompoundPattern
RECURSIVE tokenizeFrom(_, _, _)
\* tokenizePattern's outer loop from index i on
tokenizeFrom(pattern, i, tokens) ==
  IF i >= Len(pattern) THEN tokens
  ELSE LET it == TokenizeIteration(pattern, i)
       IN  tokenizeFrom(pattern, it.next, tokens \o it.emit)

tokenizePattern(pattern) == tokenizeFrom(pattern, 0, << >>)

\* ParseCompoundPattern: [tree, err]; toks is tokenizePattern's result
ParseCompoundPattern(pattern) ==
  LET trimmed == TrimSpace(pattern)
  IN  IF trimmed = << >> THEN [tree |-> NilCompound, err |-> "empty pattern"]
      ELSE CHOOSE r \in {parseTokens(toks) : toks \in {tokenizePattern(trimmed)}} : TRUE

\* -------------------------------------------------------------- the program
\* type Result struct { Found bool; Content string; Error error; Matches []string }
\* (Error is the cause at the end of the wrapped chain, "" for nil)
Result(found, content, error, matches) ==
  [Found |-> found, Content |-> content, Error |-> error, Matches |-> matches]

\* a nil *EmailConfig, *DiscordConfig or *SlackConfig
NilChannel == "nil"

\* performSearch: (bool, []string, error)
performSearch(content, searchConfig) ==
  LET type == ToLower(searchConfig.Type)
  IN  IF type = sString
        THEN LET found == StringsContains(content, searchConfig.Pattern)
             IN  EvalRet(found, IF found THEN <<searchConfig.Pattern>> ELSE << >>, "")
      ELSE IF type = sRegex
        THEN LET re == regexpCompile(searchConfig.Pattern)
                 matches == FindAllString(re.atoms, content)
             IN  IF ~re.ok THEN EvalRet(FALSE, << >>, "invalid regex pattern")
                 ELSE EvalRet(Len(matches) > 0, matches, "")
      ELSE IF type = sCompound
        THEN CHOOSE r \in
               { IF parsed.err # "" THEN EvalRet(FALSE, << >>, "invalid compound pattern")
                 ELSE EvaluateCompoundPattern(parsed.tree, content) :
                   parsed \in {ParseCompoundPattern(searchConfig.Pattern)} } : TRUE
      ELSE EvalRet(FALSE, << >>, "unsupported search type")

\* Browser.Fetch when no rod call panics.  outcome is what the page does:
\* the navigation fails, the XPath query fails, or the text read is
\* outcome.content.
Fetch(config, outcome) ==
  IF outcome.kind = "navigate error"
    THEN Result(FALSE, << >>, "failed to navigate to page", << >>)
  ELSE IF config.SearchConfig.XPath # "" /\ outcome.kind = "xpath error"
    THEN Result(FALSE, << >>, "failed to find XPath elements", << >>)
  ELSE LET search == performSearch(outcome.content, config.SearchConfig)
       IN  IF search.err # ""
             THEN Result(FALSE, outcome.content, search.err, << >>)
             ELSE Result(search.found, outcome.content, "", search.matches)

\* validateCompound with a fault (used to test C17): the pattern is not parsed
validateCompound_Skipped(searchConfig) == ""

\* validateConfig's check of a compound pattern: the error, "" for none
validateCompound(searchConfig) ==
  IF ToLower(searchConfig.Type) = sCompound
       /\ ParseCompoundPattern(searchConfig.Pattern).err # ""
    THEN "invalid compound pattern"
    ELSE ""

\* validateConfig: [config, err]; config is the configuration as the
\* function leaves it (it writes the defaults through the pointer)
validateConfig(config) ==
  LET search == config.SearchConfig
      typed == [search EXCEPT !.Type = IF search.Type = << >> THEN sString ELSE search.Type]
      defaulted == [typed EXCEPT !.NotifyOn = IF typed.NotifyOn = "" THEN "found" ELSE typed.NotifyOn]
      notifications == config.Notifications
  IN  IF config.URL = "" THEN [config |-> config, err |-> "URL is required"]
      ELSE IF search.Pattern = << >>
        THEN [config |-> config, err |-> "search pattern is required"]
      ELSE IF validateCompound(typed) # ""
        THEN [config |-> [config EXCEPT !.SearchConfig = typed], err |-> validateCompound(typed)]
      ELSE [config |-> [config EXCEPT !.SearchConfig = defaulted],
            err |-> IF /\ notifications.Email = NilChannel
                       /\ notifications.Discord = NilChannel
                       /\ notifications.Slack = NilChannel
                      THEN "at least one notification method must be configured"
                    ELSE IF notifications.Email = "incomplete"
                      THEN "email configuration is incomplete"
                    ELSE IF notifications.Discord = ""
                      THEN "discord webhook URL is required"
                    ELSE IF notifications.Slack = ""
                      THEN "slack webhook URL is required"
                    ELSE ""]

\* shouldNotify with a fault (used to test C18): an error is no reason to notify
shouldNotify_ErrorIgnored(config, result) ==
  IF config.SearchConfig.NotifyOn = "not_found" THEN ~result.Found ELSE result.Found

\* shouldNotify with a fault (used to test C19): an unknown notify_on never notifies
shouldNotify_UnknownNever(config, result) ==
  IF result.Error # "" THEN TRUE
  ELSE IF config.SearchConfig.NotifyOn = "found" THEN result.Found
  ELSE IF config.SearchConfig.NotifyOn = "not_found" THEN ~result.Found
  ELSE FALSE

\* NotificationService.shouldNotify
shouldNotify(config, result) ==
  IF result.Error # "" THEN TRUE
  ELSE IF config.SearchConfig.NotifyOn = "found" THEN result.Found
  ELSE IF config.SearchConfig.NotifyOn = "not_found" THEN ~result.Found
  ELSE result.Found

\* NotificationService.getNotificationReason
getNotificationReason(config, result) ==
  IF result.Error # "" THEN "fetch error occurred"
  ELSE IF config.SearchConfig.NotifyOn = "found"
    THEN (IF result.Found THEN "pattern found" ELSE "unknown reason")
  ELSE IF config.SearchConfig.NotifyOn = "not_found"
    THEN (IF ~result.Found THEN "pattern not found" ELSE "unknown reason")
  ELSE (IF result.Found THEN "pattern found (default)" ELSE "unknown reason")

\* NotificationService.buildMessage, the timestamp left out: the text of an
\* error message is the error; a status message names the pattern, the
\* status and the URL, and lists the matches under "Matches found:"
buildMessage(config, result) ==
  IF result.Error # ""
    THEN [kind |-> "error", url |-> config.URL, text |-> result.Error,
          pattern |-> << >>, status |-> "", listed |-> << >>]
    ELSE [kind |-> "status", url |-> config.URL, text |-> "",
          pattern |-> config.SearchConfig.Pattern,
          status |-> IF result.Found THEN "FOUND" ELSE "NOT FOUND",
          listed |-> IF result.Found /\ Len(result.Matches) > 0 THEN result.Matches ELSE << >>]

\* the channels SendNotification tries, in its order
Channels == <<"email", "discord", "slack">>
ChannelConfig(config, channel) ==
  CASE channel = "email" -> config.Notifications.Email
    [] channel = "discord" -> config.Notifications.Discord
    [] channel = "slack" -> config.Notifications.Slack
Configured(config) == SelectSeq(Channels, LAMBDA ch : ChannelConfig(config, ch) # NilChannel)

NoMessage == [kind |-> "", url |-> "", text |-> "", pattern |-> << >>, status |-> "", listed |-> << >>]
\* what a call of SendNotification did: whether it went on to send, the
\* message and the reason, the channels it tried and those that succeeded
\* (sendChannels), and its error
NoNotification ==
  [sent |-> FALSE, message |-> NoMessage, reason |-> "", attempted |-> << >>,
   sendChannels |-> << >>, err |-> ""]

\* SendNotification with a fault (used to test C29): the first channel whose
\* send fails is the last one tried
SendNotification_StopAtFailure(config, result, failing) ==
  LET all == Configured(config)
      bad == {k \in 1..Len(all) : all[k] \in failing}
      tried == IF bad = {} THEN all ELSE SubSeq(all, 1, MinOf(bad))
  IN  IF ~shouldNotify(config, result) THEN NoNotification
      ELSE [sent |-> TRUE,
            message |-> buildMessage(config, result),
            reason |-> getNotificationReason(config, result),
            attempted |-> tried,
            sendChannels |-> SelectSeq(tried, LAMBDA ch : ch \notin failing),
            err |-> IF bad # {} THEN "notification errors" ELSE ""]

\* NotificationService.SendNotification; failing is the set of channels
\* whose send fails
SendNotification(config, result, failing) ==
  IF ~shouldNotify(config, result) THEN NoNotification
  ELSE [sent |-> TRUE,
        message |-> buildMessage(config, result),
        reason |-> getNotificationReason(config, result),
        attempted |-> Configured(config),
        sendChannels |-> SelectSeq(Configured(config), LAMBDA ch : ch \notin failing),
        err |-> IF \E k \in 1..Len(Configured(config)) : Configured(config)[k] \in failing
                  THEN "notification errors" ELSE ""]

\* ------------------------------------------------------------------- inputs
RECURSIVE Concat(_)
\* the concatenation of a sequence of strings
Concat(ss) == IF ss = << >> THEN << >> ELSE Head(ss) \o Concat(Tail(ss))

RECURSIVE JoinWords(_)
\* words joined by single spaces
JoinWords(ws) ==
  IF ws = << >> THEN << >>
  ELSE IF Len(ws) = 1 THEN ws[1]
  ELSE ws[1] \o <<" ">> \o JoinWords(Tail(ws))

SeqsUpTo(S, n) == UNION {[1..k -> S] : k \in 0..n}

\* family 1: operators and leaves separated by single spaces,
\* e.g. "a AND b OR a", "a OR b AND a", "a AND", "AND a", "a AND AND b", ""
Words == {<<"a">>, <<"b">>, sAND, sOR}
WordInputs == {JoinWords(ws) : ws \in SeqsUpTo(Words, MaxWords)}

\* family 2: character-level inputs, e.g. "aAND a", "a AND(", ")OR(", "'AND '"
Pieces == {<<"a">>, <<" ">>, sAND, sOR, <<"(">>, <<")">>, <<"'">>}
PieceInputs == {Concat(ps) : ps \in SeqsUpTo(Pieces, MaxPieces)}

\* family 3: one leaf, with or without a type prefix, its value built from
\* quotes, a letter and a backslash, e.g. string:'a', 'a', regex:"", string:'\a'
Prefixes == {<< >>, sString \o <<":">>, sRegex \o <<":">>}
BodyPieces == {<<"'">>, <<"\"">>, <<"a">>, <<"\\">>}
LeafInputs == {pre \o Concat(ps) : pre \in Prefixes, ps \in SeqsUpTo(BodyPieces, MaxBody)}

\* family 4: parentheses around a short input of family 1, balanced or not,
\* e.g. "a AND (b OR a)", "(a OR (a AND b))", "((a OR b) OR b)",
\* "(a OR b) AND (a OR b)", "(a AND b", "a AND b)", "((a))"
Opening == { << >>, <<"(">>, <<"(", "(">>,
             <<"a", " ", "A", "N", "D", " ", "(">>,
             <<"(", "a", " ", "O", "R", " ", "(">>,
             <<"(", "a", " ", "O", "R", " ", "b", ")", " ", "A", "N", "D", " ", "(">> }
Closing == { << >>, <<")">>, <<")", ")">>,
             <<")", " ", "O", "R", " ", "b">>,
             <<")", " ", "O", "R", " ", "b", ")">> }
NestInputs == {op \o JoinWords(ws) \o cl :
                 op \in Opening, cl \in Closing, ws \in SeqsUpTo(Words, MaxNestWords)}

\* family 5: one leaf around a colon, e.g. "string:a", "Regex:a", "string :a",
\* "string: a", "a:a", ":a", "a:", "string::a", "stringa:a", "a string:a"
TypedPieces == {sString, <<"R", "e", "g", "e", "x">>, <<"a">>, <<":">>, <<" ">>}
TypedInputs == {Concat(ps) : ps \in SeqsUpTo(TypedPieces, MaxTyped)}

\* family 6: expressions over string and regex leaves, among them a regex
\* with a wildcard and one that does not compile, e.g. "regex:a. AND b",
\* "a AND (regex:[ OR b)", "(a OR string:A) AND regex:aa"
EvalLeaves == { <<"a">>, <<"b">>,
                sString \o <<":", "A">>,
                sRegex \o <<":", "a", ".">>,
                sRegex \o <<":", "a", "a">>,
                sRegex \o <<":", "[">> }
Shape1(x) == x
Shape2(x, op, y) == x \o <<" ">> \o op \o <<" ">> \o y
Shape3(x, op, y, z) == x \o <<" ">> \o op \o <<" ", "(">> \o y
                         \o (IF op = sAND THEN <<" ">> \o sOR \o <<" ">> ELSE <<" ">> \o sAND \o <<" ">>)
                         \o z \o <<")">>
EvalInputs ==
  {Shape1(x) : x \in EvalLeaves}
    \cup {Shape2(x, op, y) : x \in EvalLeaves, op \in {sAND, sOR}, y \in EvalLeaves}
    \cup {Shape3(x, op, y, z) : x \in EvalLeaves, op \in {sAND, sOR},
                                 y \in EvalLeaves, z \in EvalLeaves}

\* family 8: tabs and line breaks between and inside leaves, and a quote
\* that is never closed: "a AND \n OR b", "(\n)", "a \n AND b", "a\tAND b",
\* "a\t \tb", "a\nb", "( \t a )", "a AND 'b OR a", "a OR \"b) AND (", "'a\t"
WhiteInputs ==
  { <<"a", " ", "A", "N", "D", " ", "\n", " ", "O", "R", " ", "b">>,
    <<"(", "\n", ")">>,
    <<"a", " ", "\n", " ", "A", "N", "D", " ", "b">>,
    <<"a", "\t", "A", "N", "D", " ", "b">>,
    <<"a", "\t", " ", "\t", "b">>,
    <<"a", "\n", "b">>,
    <<"(", " ", "\t", " ", "a", " ", ")">>,
    <<"a", " ", "A", "N", "D", " ", "'", "b", " ", "O", "R", " ", "a">>,
    <<"a", " ", "O", "R", " ", "\"", "b", ")", " ", "A", "N", "D", " ", "(">>,
    <<"'", "a", "\t">> }

Inputs == WordInputs \cup PieceInputs \cup LeafInputs \cup NestInputs \cup TypedInputs
            \cup EvalInputs \cup WhiteInputs

\* family 7: trees given to EvaluateCompoundPattern directly, which the
\* parser need not be able to build: a node without children, an operator
\* in small letters or unknown, a leaf of unknown type, a nil child
TreeOperators == {"AND", "OR", "and", "XOR"}
TreeLeaves == { PatternElement("string", <<"a">>, NilCompound),
                PatternElement("string", <<"b">>, NilCompound),
                PatternElement("regex", <<"a", ".">>, NilCompound),
                PatternElement("regex", <<"[">>, NilCompound),
                PatternElement("xml", <<"a">>, NilCompound) }
FlatTrees ==
  {CompoundPattern(op, << >>) : op \in TreeOperators}
    \cup {CompoundPattern(op, <<x>>) : op \in TreeOperators, x \in TreeLeaves}
    \cup {CompoundPattern(op, <<x, y>>) : op \in TreeOperators, x \in TreeLeaves, y \in TreeLeaves}
Trees ==
  {NilCompound} \cup FlatTrees
    \cup {CompoundPattern(op, <<x, PatternElement("compound", << >>, t)>>) :
           op \in {"AND", "OR"}, x \in TreeLeaves,
           t \in {NilCompound} \cup {u \in FlatTrees : u.Operator \in {"AND", "OR"} /\ Len(u.Patterns) # 1}}

\* the page contents a pattern is evaluated against
Contents == { << >>, <<"a">>, <<"b">>, <<"A">>, <<"a", "b">>, <<"a", "a", "a">>,
              <<"a", "b", "a", "a">>, <<"'", "a", "'">> }

\* the configurations the program is started with
SearchConfig(type, pat, xpath, notifyOn) ==
  [Type |-> type, Pattern |-> pat, XPath |-> xpath, NotifyOn |-> notifyOn]
Notifications(email, discord, slack) == [Email |-> email, Discord |-> discord, Slack |-> slack]
\* Interval is 0 when the file does not name one
Config(url, search, notifications) ==
  [URL |-> url, Interval |-> 0, SearchConfig |-> search, Notifications |-> notifications]

\* "", string, regex, compound, COMPOUND, xml
Types == { << >>, sString, sRegex, sCompound,
           <<"C", "O", "M", "P", "O", "U", "N", "D">>, <<"x", "m", "l">> }
\* "", a, "a AND b", "a OR b", "(a", "[", "regex:[ OR a", "regex:a. AND b", "a."
ConfigPatterns ==
  { << >>, <<"a">>,
    <<"a", " ", "A", "N", "D", " ", "b">>,
    <<"a", " ", "O", "R", " ", "b">>,
    <<"(", "a">>,
    <<"[">>,
    sRegex \o <<":", "[", " ", "O", "R", " ", "a">>,
    sRegex \o <<":", "a", ".", " ", "A", "N", "D", " ", "b">>,
    <<"a", ".">> }
NotifyOns == {"", "found", "not_found", "NOT_FOUND", "always"}
\* Email: nil, "incomplete" (a required field is empty) or "complete";
\* Discord and Slack: nil or the webhook URL, which may be empty
ChannelConfigs ==
  { Notifications(NilChannel, NilChannel, NilChannel),
    Notifications("complete", NilChannel, NilChannel),
    Notifications("incomplete", "hook", NilChannel),
    Notifications(NilChannel, "hook", NilChannel),
    Notifications(NilChannel, "", "hook"),
    Notifications(NilChannel, "hook", "hook"),
    Notifications("complete", NilChannel, "") }

\* every type with every pattern and every notify_on, one Discord channel
TypeConfigs ==
  { Config("u", SearchConfig(type, pat, "", notifyOn), Notifications(NilChannel, "hook", NilChannel)) :
      type \in Types, pat \in ConfigPatterns, notifyOn \in NotifyOns }
\* a compound pattern with every choice of URL, XPath and channels
ChannelsConfigs ==
  { Config(url, SearchConfig(sCompound, pat, xpath, notifyOn), notifications) :
      url \in {"", "u"},
      pat \in {<<"a", " ", "A", "N", "D", " ", "b">>, <<"(", "a">>},
      xpath \in {"", "x"},
      notifyOn \in {"", "not_found"},
      notifications \in ChannelConfigs }
\* the seconds between two fetches: not named, a minute, a negative number
Intervals == {0, 60, -1}
\* a string pattern with every interval and notify_on
IntervalConfigs ==
  { [Config("u", SearchConfig(sString, <<"a">>, "", notifyOn),
            Notifications(NilChannel, "hook", NilChannel)) EXCEPT !.Interval = n] :
      n \in Intervals, notifyOn \in {"found", "not_found"} }
Configs == TypeConfigs \cup ChannelsConfigs \cup IntervalConfigs

\* the text the browser reads from the page
PageContents == { << >>, <<"a">>, <<"a", "b">>, <<"a", "b", "a", "a">> }
\* what a fetch meets: see Fetch
FetchOutcomes(config) ==
  {[kind |-> "navigate error", content |-> << >>]}
    \cup (IF config.SearchConfig.XPath # ""
           THEN {[kind |-> "xpath error", content |-> << >>]} ELSE {})
    \cup {[kind |-> "content", content |-> c] : c \in PageContents}

\* -------------------------------------------------------------------- state
VARIABLES
  input,    \* the pattern string ParseCompoundPattern is called with
  pc,       \* "call", "tokenize" (in tokenizePattern's loop), "done" (returned)
  pattern,  \* ParseCompoundPattern's trimmed pattern
  i,        \* tokenizePattern's scan index
  tokens,   \* tokenizePattern's token list
  starts,   \* history: for each token, the index its scan began at
  ends,     \* history: for each token, the index its scan stopped at
  result,   \* what ParseCompoundPattern returned: [tree, err]
  content,  \* the content EvaluateCompoundPattern is called with
  evaluation, \* what EvaluateCompoundPattern returned: [found, matches, err, at]
  \* a run of the program (main)
  file,     \* the configuration in the config file
  runOnce,  \* the -once flag
  mpc,      \* main's position: "load", "validate", "launch", "first", "wait",
            \* or ended: "fatal" (log.Fatalf), "crashed" (panic), "exited"
  config,   \* *Config as LoadConfig returned and validateConfig left it
  launched, \* NewBrowser was called
  fetches,  \* the calls of runFetch so far
  last,     \* the Result of the last runFetch that returned
  notified, \* what SendNotification did in that runFetch
  ticker,   \* the period of main's ticker in seconds, 0 before time.NewTicker
  history   \* of each runFetch that returned: had an error, found, notified,
            \* SendNotification returned an error

parseVars == <<input, pc, pattern, i, tokens, starts, ends, result, content, evaluation>>
mainVars == <<file, runOnce, mpc, config, launched, fetches, last, notified, ticker, history>>
vars == <<parseVars, mainVars>>

NoResult == [tree |-> NilCompound, err |-> ""]
NoEvaluation == EvalRet(FALSE, << >>, "")
NoFetch == Result(FALSE, << >>, "", << >>)
NoConfig == Config("", SearchConfig(<< >>, << >>, "", ""), Notifications(NilChannel, NilChannel, NilChannel))

\* no call of ParseCompoundPattern is followed
ParseIdle ==
  /\ input = << >>
  /\ pc = "idle"
  /\ pattern = << >>
  /\ i = 0
  /\ tokens = << >>
  /\ starts = << >>
  /\ ends = << >>
  /\ result = NoResult
  /\ content = << >>
  /\ evaluation = NoEvaluation

\* no run of the program is followed
MainIdle ==
  /\ file = NoConfig
  /\ runOnce = FALSE
  /\ mpc = "idle"
  /\ config = NoConfig
  /\ launched = FALSE
  /\ fetches = 0
  /\ last = NoFetch
  /\ notified = NoNotification
  /\ ticker = 0
  /\ history = << >>

Init ==
  /\ input \in Inputs
  /\ pc = "call"
  /\ pattern = << >>
  /\ i = 0
  /\ tokens = << >>
  /\ starts = << >>
  /\ ends = << >>
  /\ result = NoResult
  /\ content = << >>
  /\ evaluation = NoEvaluation
  /\ MainIdle

\* ParseCompoundPattern up to the call of tokenizePattern
Enter ==
  /\ pc = "call"
  /\ pattern' = TrimSpace(input)
  /\ IF pattern' = << >>
       THEN /\ result' = [tree |-> NilCompound, err |-> "empty pattern"]
            /\ pc' = "done"
       ELSE /\ result' = result
            /\ pc' = "tokenize"
  /\ UNCHANGED <<input, i, tokens, starts, ends, content, evaluation>>
  /\ UNCHANGED mainVars

\* one iteration of tokenizePattern's outer loop
TokenizeStep ==
  /\ pc = "tokenize"
  /\ i < Len(pattern)
  /\ LET it == TokenizeIteration(pattern, i)
     IN  /\ tokens' = tokens \o it.emit
         /\ starts' = IF it.emit = << >> THEN starts ELSE Append(starts, i)
         /\ ends' = IF it.emit = << >> THEN ends ELSE Append(ends, it.next)
         /\ i' = it.next
  /\ UNCHANGED <<input, pc, pattern, result, content, evaluation>>
  /\ UNCHANGED mainVars

\* tokenizePattern returns; ParseCompoundPattern returns parseTokens(tokens)
ParseTokens ==
  /\ pc = "tokenize"
  /\ i >= Len(pattern)
  /\ result' = parseTokens(tokens)
  /\ pc' = "done"
  /\ UNCHANGED <<input, pattern, i, tokens, starts, ends, content, evaluation>>
  /\ UNCHANGED mainVars

\* the compound case of performSearch after a successful parse:
\* EvaluateCompoundPattern(compound, content)
Evaluate ==
  /\ pc = "done"
  /\ result.err = ""
  /\ \E c \in Contents :
       /\ content' = c
       /\ evaluation' = EvaluateCompoundPattern(result.tree, c)
  /\ pc' = "evaluated"
  /\ UNCHANGED <<input, pattern, i, tokens, starts, ends, result>>
  /\ UNCHANGED mainVars

Next == Enter \/ TokenizeStep \/ ParseTokens \/ Evaluate

Spec == Init /\ [][Next]_vars

\* ------------------------------------------------------ a run of the program
MainInit ==
  /\ ParseIdle
  /\ file \in Configs
  /\ runOnce \in BOOLEAN
  /\ mpc = "load"
  /\ config = NoConfig
  /\ launched = FALSE
  /\ fetches = 0
  /\ last = NoFetch
  /\ notified = NoNotification
  /\ ticker = 0
  /\ history = << >>

\* main: LoadConfig, which fails when the file cannot be read or decoded
LoadConfig ==
  /\ mpc = "load"
  /\ \/ /\ mpc' = "validate"
        /\ config' = file
     \/ /\ mpc' = "fatal"
        /\ config' = config
  /\ UNCHANGED <<file, runOnce, launched, fetches, last, notified, ticker, history>>
  /\ UNCHANGED parseVars

\* main: validateConfig, and log.Fatalf on its error
ValidateConfig ==
  /\ mpc = "validate"
  /\ LET v == validateConfig(config)
     IN  /\ config' = v.config
         /\ mpc' = IF v.err # "" THEN "fatal" ELSE "launch"
  /\ UNCHANGED <<file, runOnce, launched, fetches, last, notified, ticker, history>>
  /\ UNCHANGED parseVars

\* main: NewBrowser, whose MustLaunch / MustConnect panic on failure, and
\* NewNotificationService
Launch ==
  /\ mpc = "launch"
  /\ launched' = TRUE
  /\ mpc' \in {"first", "crashed"}
  /\ UNCHANGED <<file, runOnce, config, fetches, last, notified, ticker, history>>
  /\ UNCHANGED parseVars

\* runFetch: client.Fetch, the log, SendNotification.  A rod Must call of
\* Fetch that fails panics, which ends the process; then is main's position
\* when runFetch returns.
RunFetch(then) ==
  /\ fetches' = fetches + 1
  /\ \/ /\ mpc' = "crashed"
        /\ UNCHANGED <<last, notified, history>>
     \/ \E outcome \in FetchOutcomes(config) :
          \E fetched \in {Fetch(config, outcome)} :
              /\ last' = fetched
              /\ \E failing \in SUBSET {Configured(config)[k] : k \in 1..Len(Configured(config))} :
                   notified' = SendNotification(config, fetched, failing)
              /\ history' = Append(history, [error |-> fetched.Error # "",
                                              found |-> fetched.Found,
                                              sent |-> notified'.sent,
                                              failed |-> notified'.err # ""])
              /\ mpc' = then
  /\ UNCHANGED <<file, runOnce, config, launched>>
  /\ UNCHANGED parseVars

\* interval = 300 * time.Second, in seconds
DefaultInterval == 300

\* MonitoringInterval with a fault (used to test C22): no default
MonitoringInterval_NoDefault(c) == c.Interval

\* main's interval: config.Interval seconds, the default if that is 0
MonitoringInterval(c) == IF c.Interval = 0 THEN DefaultInterval ELSE c.Interval

\* main with -once: one runFetch, and main returns
FetchOnce ==
  /\ mpc = "first"
  /\ runOnce
  /\ RunFetch("exited")
  /\ UNCHANGED ticker

\* main without -once: time.NewTicker(interval), which panics if the
\* interval is not positive, and the fetch at startup
FirstFetch ==
  /\ mpc = "first"
  /\ ~runOnce
  /\ ticker' = MonitoringInterval(config)
  /\ IF MonitoringInterval(config) <= 0
       THEN /\ mpc' = "crashed"
            /\ UNCHANGED <<file, runOnce, config, launched, fetches, last, notified, history>>
            /\ UNCHANGED parseVars
       ELSE RunFetch("wait")

\* main's loop: case <-ticker.C
Tick ==
  /\ mpc = "wait"
  /\ fetches < MaxCycles
  /\ RunFetch("wait")
  /\ UNCHANGED ticker

\* main's loop: case <-c (os.Interrupt, SIGTERM)
Shutdown ==
  /\ mpc = "wait"
  /\ mpc' = "exited"
  /\ UNCHANGED <<file, runOnce, config, launched, fetches, last, notified, ticker, history>>
  /\ UNCHANGED parseVars

MainNext == LoadConfig \/ ValidateConfig \/ Launch \/ FetchOnce \/ FirstFetch \/ Tick \/ Shutdown

MainSpec == MainInit /\ [][MainNext]_vars

\* --------------------------------- a call of EvaluateCompoundPattern alone
TreeInit ==
  /\ input = << >>
  /\ pc = "tree"
  /\ pattern = << >>
  /\ i = 0
  /\ tokens = << >>
  /\ starts = << >>
  /\ ends = << >>
  /\ result \in {[tree |-> t, err |-> ""] : t \in Trees}
  /\ content = << >>
  /\ evaluation = NoEvaluation
  /\ MainIdle

\* EvaluateCompoundPattern(compound, content) for a tree the caller built
EvaluateTree ==
  /\ pc = "tree"
  /\ \E c \in Contents :
       /\ content' = c
       /\ evaluation' = EvaluateCompoundPattern(result.tree, c)
  /\ pc' = "valued"
  /\ UNCHANGED <<input, pattern, i, tokens, starts, ends, result>>
  /\ UNCHANGED mainVars

TreeNext == EvaluateTree

TreeSpec == TreeInit /\ [][TreeNext]_vars

\* ===================================================================
\* Properties.  The definitions below state what is checked of the model;
\* they are written against the pattern grammar, not against the parser.
\* ===================================================================

\* the elements of a finite set of integers in increasing order
SortedSeq(S) ==
  [j \in 1..Cardinality(S) |-> CHOOSE x \in S : Cardinality({y \in S : y < x}) = j - 1]

\* the parts of toks between the (1-based) positions of cuts
SplitAt(toks, cuts) ==
  LET c == <<0>> \o SortedSeq(cuts) \o <<Len(toks) + 1>>
  IN  [j \in 1..(Len(c) - 1) |-> SubSeq(toks, c[j] + 1, c[j + 1] - 1)]

\* parentheses open after the first k tokens
DepthAfter(toks, k) ==
  Cardinality({j \in 1..k : toks[j].Type = "LPAREN"})
    - Cardinality({j \in 1..k : toks[j].Type = "RPAREN"})

\* positions of the operators of the given type outside every parenthesis
TopLevel(toks, type) ==
  {k \in 1..Len(toks) : toks[k].Type = type /\ DepthAfter(toks, k) = 0}

ParenFree(toks) == \A k \in 1..Len(toks) : toks[k].Type \notin {"LPAREN", "RPAREN"}

\* leaf, operator, leaf, ..., leaf
Alternating(toks) ==
  /\ Len(toks) % 2 = 1
  /\ \A k \in 1..Len(toks) :
       IF k % 2 = 1 THEN toks[k].Type = "PATTERN" ELSE toks[k].Type \in {"AND", "OR"}

\* the one-child AND the parser wraps a leaf in
LeafNode(tok) == CompoundPattern("AND", <<parsePatternElement(tok.Value).elem>>)

\* a node over already built children: one child stays as it is
NodeOver(op, kids) ==
  IF Len(kids) = 1 THEN kids[1]
  ELSE CompoundPattern(op, [j \in 1..Len(kids) |-> CompoundElement(kids[j])])

\* the tree of a parenthesis-free expression: the maximal runs of AND-joined
\* leaves, each an AND node, under one OR node
FlatTree(toks) ==
  LET runs == SplitAt(toks, {k \in 1..Len(toks) : toks[k].Type = "OR"})
      andNode(run) == NodeOver("AND", [j \in 1..((Len(run) + 1) \div 2) |-> LeafNode(run[2 * j - 1])])
  IN  NodeOver("OR", [r \in 1..Len(runs) |-> andNode(runs[r])])

\* C1: AND binds tighter than OR.  Whenever the tokens are leaves separated
\* by AND/OR without parentheses, ParseCompoundPattern succeeds and returns
\* the OR of the maximal AND-runs (FlatTree), so "a AND b OR c" is
\* Or(And(a,b), c) and never And(a, Or(b,c)).
C1_AndBindsTighterThanOr ==
  (pc = "done" /\ tokens # << >> /\ ParenFree(tokens) /\ Alternating(tokens))
    => (result.err = "" /\ result.tree = FlatTree(tokens))

\* a finished parse of leaf AND leaf OR leaf whose root is the OR of an
\* AND node and a leaf
C1_Witness ==
  /\ pc = "done"
  /\ Len(tokens) = 5
  /\ Alternating(tokens)
  /\ tokens[2].Type = "AND" /\ tokens[4].Type = "OR"
  /\ tokens[1].Value # tokens[3].Value
  /\ result.err = ""
  /\ result.tree.Operator = "OR"
  /\ Len(result.tree.Patterns) = 2
  /\ result.tree.Patterns[1].Compound.Operator = "AND"
  /\ Len(result.tree.Patterns[1].Compound.Patterns) = 2

\* the tree the grammar of the pattern language gives a token sequence
\* (OrExpr := AndExpr (OR AndExpr)*, AndExpr := Primary (AND Primary)*,
\* Primary := '(' OrExpr ')' | leaf), or BadTree when it derives none
BadTree == CompoundPattern("bad", << >>)

RECURSIVE GrammarOr(_)
RECURSIVE GrammarAnd(_)
RECURSIVE GrammarPrimary(_)

GrammarOr(toks) ==
  LET parts == SplitAt(toks, TopLevel(toks, "OR"))
      kids == [j \in 1..Len(parts) |-> GrammarAnd(parts[j])]
  IN  IF \E j \in 1..Len(kids) : kids[j] = BadTree THEN BadTree
      ELSE NodeOver("OR", kids)

GrammarAnd(toks) ==
  LET parts == SplitAt(toks, TopLevel(toks, "AND"))
      kids == [j \in 1..Len(parts) |-> GrammarPrimary(parts[j])]
  IN  IF \E j \in 1..Len(kids) : kids[j] = BadTree THEN BadTree
      ELSE NodeOver("AND", kids)

GrammarPrimary(toks) ==
  IF Len(toks) = 1 /\ toks[1].Type = "PATTERN" THEN LeafNode(toks[1])
  ELSE IF /\ Len(toks) >= 3
          /\ toks[1].Type = "LPAREN" /\ toks[Len(toks)].Type = "RPAREN"
          /\ \A k \in 1..(Len(toks) - 1) : DepthAfter(toks, k) > 0
          /\ DepthAfter(toks, Len(toks)) = 0
    THEN GrammarOr(SubSeq(toks, 2, Len(toks) - 1))
  ELSE BadTree

\* the deepest nesting of parentheses
MaxDepth(toks) == MaxOf({DepthAfter(toks, k) : k \in 0..Len(toks)})

\* C2: parentheses override precedence.  Whenever the tokens contain
\* parentheses and form an expression of the grammar, ParseCompoundPattern
\* succeeds and returns the grammar's tree, in which every parenthesised
\* group is one operand of the operator around it, at every nesting depth;
\* "a AND (b OR c)" is And(a, Or(b,c)).
C2_ParenthesesGroup ==
  (pc = "done" /\ ~ParenFree(tokens) /\ GrammarOr(tokens) # BadTree)
    => (result.err = "" /\ result.tree = GrammarOr(tokens))

\* a finished parse of leaf AND ( leaf OR leaf ) whose root is the AND of a
\* leaf and an OR node
C2_Witness ==
  /\ pc = "done"
  /\ [k \in 1..Len(tokens) |-> tokens[k].Type]
       = <<"PATTERN", "AND", "LPAREN", "PATTERN", "OR", "PATTERN", "RPAREN">>
  /\ result.err = ""
  /\ result.tree.Operator = "AND"
  /\ Len(result.tree.Patterns) = 2
  /\ result.tree.Patterns[1].Compound = LeafNode(tokens[1])
  /\ result.tree.Patterns[2].Compound.Operator = "OR"
  /\ Len(result.tree.Patterns[2].Compound.Patterns) = 2

\* C2's case at nesting depth two: a successful parse of a well-formed
\* expression nested two deep (reachable, e.g. "(a OR (a AND b))")
C2_DeepWitness ==
  /\ pc = "done"
  /\ MaxDepth(tokens) = 2
  /\ GrammarOr(tokens) # BadTree
  /\ result.err = ""
  /\ result.tree.Operator = "OR"
  /\ \E j \in 1..Len(result.tree.Patterns) :
       result.tree.Patterns[j].Compound.Operator = "AND"
       /\ Len(result.tree.Patterns[j].Compound.Patterns) = 2

\* ----------------------------------------------- the pattern string's lexemes
Quotes == {"\"", "'"}
Delimiters == {" ", "\t", "(", ")"}

RECURSIVE OpenQuoteAt(_, _)
\* the quote character that is open just before index k of p ("" when none):
\* a quote opens at a quote character outside quotes and closes at the next
\* occurrence of the same character
OpenQuoteAt(p, k) ==
  IF k = 0 THEN ""
  ELSE LET q == OpenQuoteAt(p, k - 1)
           c == At(p, k - 1)
       IN  IF q = "" THEN (IF c \in Quotes THEN c ELSE "")
           ELSE IF c = q THEN "" ELSE q

\* the quoted spans of p: <<s, e>>, the indices of a matching pair of quotes
QuotedSpans(p) ==
  {se \in (0..(Len(p) - 1)) \X (0..(Len(p) - 1)) :
     /\ se[1] < se[2]
     /\ At(p, se[1]) \in Quotes
     /\ OpenQuoteAt(p, se[1]) = ""
     /\ At(p, se[2]) = At(p, se[1])
     /\ \A j \in (se[1] + 1)..(se[2] - 1) : At(p, j) # At(p, se[1])}

\* w occurs in v
Contains(v, w) == \E k \in 0..(Len(v) - Len(w)) : HasAt(v, k, w)

\* the keyword kw stands alone at index k of p: outside quotes, and delimited
\* on each side by whitespace, a parenthesis or the start/end of p
StandsAlone(p, k, kw) ==
  /\ HasAt(p, k, kw)
  /\ OpenQuoteAt(p, k) = ""
  /\ (k = 0 \/ At(p, k - 1) \in Delimiters)
  /\ (k + Len(kw) = Len(p) \/ At(p, k + Len(kw)) \in Delimiters)

\* the index of the keyword an operator token was read from
KeywordIndex(k) == IF At(pattern, starts[k]) = " " THEN starts[k] + 1 ELSE starts[k]

RECURSIVE Lex(_, _, _, _)
\* the lexemes of p from index k on: outside quotes whitespace separates,
\* a parenthesis is a lexeme of its own; cur is the lexeme being read
Lex(p, k, cur, open) ==
  LET flush == IF cur = << >> THEN << >> ELSE <<cur>>
  IN  IF k >= Len(p) THEN flush
      ELSE LET c == At(p, k)
           IN  IF open # "" THEN Lex(p, k + 1, Append(cur, c), IF c = open THEN "" ELSE open)
               ELSE IF c \in Quotes THEN Lex(p, k + 1, Append(cur, c), c)
               ELSE IF c \in {" ", "\t"} THEN flush \o Lex(p, k + 1, << >>, "")
               ELSE IF c \in {"(", ")"} THEN flush \o <<(<<c>>)>> \o Lex(p, k + 1, << >>, "")
               ELSE Lex(p, k + 1, Append(cur, c), "")

Lexemes(p) == Lex(p, 0, << >>, "")
IsOperator(lexeme) == lexeme = sAND \/ lexeme = sOR

\* an AND/OR at the start or the end of the input, or directly after another
DanglingOperator(p) ==
  LET ls == Lexemes(p)
  IN  /\ ls # << >>
      /\ \/ IsOperator(ls[1])
         \/ IsOperator(ls[Len(ls)])
         \/ \E k \in 1..(Len(ls) - 1) : IsOperator(ls[k]) /\ IsOperator(ls[k + 1])

\* "", "(a AND b", "a AND", "AND a"
C3_Listed ==
  { << >>,
    <<"(", "a", " ", "A", "N", "D", " ", "b">>,
    <<"a", " ", "A", "N", "D">>,
    <<"A", "N", "D", " ", "a">> }

\* C3: ParseCompoundPattern returns an error for "", "(a AND b", "a AND" and
\* "AND a", and for every input with an AND/OR that has no operand after it:
\* at the start or the end of the input, or directly after another operator.
C3_MalformedIsError ==
  (pc = "done" /\ (input \in C3_Listed \/ DanglingOperator(pattern)))
    => result.err # ""

\* some unquoted parenthesis has no partner
Unbalanced(p) ==
  LET ls == Lexemes(p)
      parens == SelectSeq(ls, LAMBDA l : l = <<"(">> \/ l = <<")">>)
      depth(k) == Cardinality({j \in 1..k : parens[j] = <<"(">>})
                    - Cardinality({j \in 1..k : parens[j] = <<")">>})
  IN  \/ \E k \in 1..Len(parens) : depth(k) < 0
      \/ depth(Len(parens)) # 0

\* C4: unbalanced parentheses are always a parse error: whenever an unquoted
\* "(" has no matching ")" or an unquoted ")" has no matching "(",
\* ParseCompoundPattern returns an error.
C4_UnbalancedIsError ==
  (pc = "done" /\ Unbalanced(pattern)) => result.err # ""

\* C5: AND / OR is an operator only where it stands alone: every AND/OR token
\* was read from a keyword delimited on both sides by whitespace, a
\* parenthesis or the start/end of the input, so no word that merely contains
\* the letters (as in "BRAND new", "FOR sale") is split by an operator token.
C5_OperatorOnlyAtBoundary ==
  \A k \in 1..Len(tokens) :
    tokens[k].Type \in {"AND", "OR"}
      => StandsAlone(pattern, KeywordIndex(k), tokens[k].Value)

\* C6: every unquoted AND / OR that stands alone (delimited by whitespace, a
\* parenthesis or the start/end of the input) is tokenized as an operator:
\* an AND/OR token is read from its position, never a leaf.
C6_StandaloneKeywordIsOperator ==
  pc = "done" =>
    \A kw \in {sAND, sOR} : \A p \in 0..(Len(pattern) - 1) :
      StandsAlone(pattern, p, kw)
        => \E k \in 1..Len(tokens) :
             /\ tokens[k].Type \in {"AND", "OR"}
             /\ tokens[k].Value = kw
             /\ KeywordIndex(k) = p

\* C7: inside a quoted span AND, OR, parentheses and whitespace have no
\* special meaning: every matching pair of quotes lies, verbatim, inside one
\* leaf token, and no token begins inside the quoted text.
C7_QuotedSpanIsOneLeaf ==
  pc = "done" =>
    \A se \in QuotedSpans(pattern) :
      /\ \E k \in 1..Len(tokens) :
           /\ tokens[k].Type = "PATTERN"
           /\ starts[k] <= se[1] /\ se[2] < ends[k]
           /\ Contains(tokens[k].Value, Slice(pattern, se[1], se[2] + 1))
      /\ \A k \in 1..Len(tokens) : ~(se[1] < starts[k] /\ starts[k] <= se[2])

\* a finished tokenization of one leaf whose quoted span holds a place where
\* an unquoted scan would have stopped (an operator or a parenthesis)
C7_Witness ==
  /\ pc = "done"
  /\ Len(tokens) = 1
  /\ tokens[1].Type = "PATTERN"
  /\ \E se \in QuotedSpans(pattern) :
       \E j \in (se[1] + 1)..(se[2] - 1) :
         \/ At(pattern, j) \in {"(", ")"}
         \/ HasAt(pattern, j, sANDSp) \/ HasAt(pattern, j, sSpAND)
         \/ HasAt(pattern, j, sORSp) \/ HasAt(pattern, j, sSpOR)

\* ------------------------------------------------------- leaves of a tree
RECURSIVE LeavesOf(_)
RECURSIVE LeavesOfElements(_)
\* the leaf elements of a tree, left to right
LeavesOf(compound) == LeavesOfElements(compound.Patterns)
LeavesOfElements(elems) ==
  IF elems = << >> THEN << >>
  ELSE (IF Head(elems).Type = "compound" THEN LeavesOf(Head(elems).Compound)
        ELSE <<Head(elems)>>) \o LeavesOfElements(Tail(elems))

\* the leaf tokens, left to right
PatternTokens == SelectSeq(tokens, LAMBDA t : t.Type = "PATTERN")

\* the parse succeeded and used every leaf token: leaf k of the tree was
\* parsed from leaf token k
LeavesFollowTokens ==
  /\ pc = "done"
  /\ result.err = ""
  /\ Len(LeavesOf(result.tree)) = Len(PatternTokens)

\* the value of a leaf: its text after the string: / regex: prefix, if any
LeafValue(v) ==
  IF HasAt(v, 0, sString \o <<":">>) THEN TrimSpace(Slice(v, 7, Len(v)))
  ELSE IF HasAt(v, 0, sRegex \o <<":">>) THEN TrimSpace(Slice(v, 6, Len(v)))
  ELSE v

\* w is wrapped in quotes: it starts with a quote and ends with the same one
Wrapped(w) == Len(w) >= 2 /\ w[1] \in Quotes /\ w[Len(w)] = w[1]

\* w is wrapped in a single matching pair of quotes
SinglePair(w) == Wrapped(w) /\ \A j \in 2..(Len(w) - 1) : w[j] # w[1]

\* the text between the quotes
Unwrapped(w) == SubSeq(w, 2, Len(w) - 1)

\* C8: for every leaf whose value is wrapped in a single matching pair of
\* ' or ", with a string:/regex: prefix or without any prefix, the pattern
\* stored in the parsed leaf is the text between the quotes (stated for a
\* non-empty text; the empty one is C10's).
C8_QuotesNotInPattern ==
  LeavesFollowTokens =>
    \A k \in 1..Len(PatternTokens) :
      LET w == LeafValue(PatternTokens[k].Value)
      IN  (SinglePair(w) /\ Unwrapped(w) # << >>)
            => LeavesOf(result.tree)[k].Pattern = Unwrapped(w)

RECURSIVE Unescape(_)
\* backslash escapes decoded: \n is a newline, \t a tab, and any other
\* escaped character (a quote, a backslash, ...) is that character
Unescape(body) ==
  IF body = << >> THEN << >>
  ELSE IF Head(body) = "\\" /\ Len(body) >= 2
    THEN <<(IF body[2] = "n" THEN "\n" ELSE IF body[2] = "t" THEN "\t" ELSE body[2])>>
           \o Unescape(SubSeq(body, 3, Len(body)))
  ELSE <<Head(body)>> \o Unescape(Tail(body))

\* C9: within a quoted leaf value backslash escapes are decoded: the pattern
\* of a string:/regex: leaf whose value is wrapped in quotes is the text
\* between the quotes with \<quote>, \\, \n, \t decoded and the backslash of
\* any other escape dropped.
C9_EscapesDecoded ==
  LeavesFollowTokens =>
    \A k \in 1..Len(PatternTokens) :
      LET v == PatternTokens[k].Value
          w == LeafValue(v)
      IN  (w # v /\ Wrapped(w))
            => LeavesOf(result.tree)[k].Pattern = Unescape(Unwrapped(w))

\* C10: no successfully parsed tree contains a leaf with an empty pattern.
C10_NoEmptyLeafPattern ==
  (pc = "done" /\ result.err = "")
    => \A k \in 1..Len(LeavesOf(result.tree)) : LeavesOf(result.tree)[k].Pattern # << >>

\* ------------------------------------------------------------ leaf typing
\* s and t are equal up to the case of their letters
EqualFold(s, t) ==
  /\ Len(s) = Len(t)
  /\ \A k \in 1..Len(s) :
       \/ s[k] = t[k]
       \/ \E n \in 1..26 : {s[k], t[k]} = {UpperLetters[n], LowerLetters[n]}

\* the (1-based) positions of the colons of v
Colons(v) == {k \in 1..Len(v) : v[k] = ":"}
\* the text before / after the first colon of v
BeforeColon(v) == SubSeq(v, 1, MinOf(Colons(v)) - 1)
AfterColon(v) == SubSeq(v, MinOf(Colons(v)) + 1, Len(v))
\* v has a colon, and its first colon is neither the first nor the last character
InnerColon(v) == Colons(v) # {} /\ MinOf(Colons(v)) \notin {1, Len(v)}

\* the kind the type word w names, "" when it names none
KindNamed(w) ==
  IF EqualFold(w, sString) THEN "string"
  ELSE IF EqualFold(w, sRegex) THEN "regex"
  ELSE ""

\* w without the pair of equal quotes around it, if there is one
WithoutQuotePair(w) == IF Wrapped(w) THEN Unwrapped(w) ELSE w

RECURSIVE WellFormed(_)
\* node is a compound with operator AND or OR and at least one child; each
\* child is a well-formed nested compound or a string/regex leaf, and a leaf
\* is the only child of an AND
WellFormed(node) ==
  /\ node # NilCompound
  /\ node.Operator \in {"AND", "OR"}
  /\ Len(node.Patterns) >= 1
  /\ \A j \in 1..Len(node.Patterns) :
       LET e == node.Patterns[j]
       IN  IF e.Type = "compound"
             THEN e.Compound # NilCompound /\ WellFormed(e.Compound)
             ELSE /\ e.Type \in {"string", "regex"}
                  /\ node.Operator = "AND"
                  /\ Len(node.Patterns) = 1

Parsed == pc \in {"done", "evaluated"} /\ result.err = ""

\* C12: every tree a successful ParseCompoundPattern returns is well formed
\* (every compound has an operator AND/OR and at least one child, every
\* compound element a non-nil nested node, every other element the type
\* string or regex, a bare leaf is a one-child AND), and evaluating it fails,
\* if at all, with a regex compile error.
C12_ParsedTreeWellFormed ==
  /\ Parsed => WellFormed(result.tree)
  /\ (Parsed /\ Len(tokens) = 1)
       => (result.tree.Operator = "AND" /\ Len(result.tree.Patterns) = 1
           /\ result.tree.Patterns[1].Type # "compound")
  /\ pc = "evaluated" => evaluation.err \in {"", "invalid regex pattern"}

\* a nested tree whose evaluation failed on a regex leaf
C12_Witness ==
  /\ pc = "evaluated"
  /\ evaluation.err = "invalid regex pattern"
  /\ Len(result.tree.Patterns) = 2
  /\ \E j \in 1..2 : Len(result.tree.Patterns[j].Compound.Patterns) = 2

\* ------------------------------------------------------ evaluating a leaf
\* the tree is one leaf
SingleLeaf(type) ==
  /\ pc = "evaluated"
  /\ Len(result.tree.Patterns) = 1
  /\ result.tree.Patterns[1].Type = type
TheLeaf == result.tree.Patterns[1]

\* C13: a string leaf is found iff the content contains its pattern as an
\* exact, case-sensitive substring; its match list is the pattern alone when
\* found and empty when not; a tree of string leaves never fails.
C13_StringLeaf ==
  /\ SingleLeaf("string") =>
       /\ evaluation.found = Contains(content, TheLeaf.Pattern)
       /\ evaluation.matches = IF evaluation.found THEN <<TheLeaf.Pattern>> ELSE << >>
       /\ evaluation.err = ""
  /\ (pc = "evaluated"
        /\ \A k \in 1..Len(LeavesOf(result.tree)) : LeavesOf(result.tree)[k].Type = "string")
       => evaluation.err = ""

\* a string leaf with letters that was not found in a content holding the
\* same letters in the other case
C13_Witness ==
  /\ SingleLeaf("string")
  /\ ~evaluation.found
  /\ content # << >>
  /\ EqualFold(content, TheLeaf.Pattern)

\* ---- regular expressions of letters and '.', read without the regexp model
PlainRegex(p) ==
  \A j \in 1..Len(p) : p[j] = "." \/ \E n \in 1..26 : p[j] \in {UpperLetters[n], LowerLetters[n]}

\* p matches s at index k
PlainMatchAt(p, s, k) ==
  /\ k + Len(p) <= Len(s)
  /\ \A j \in 1..Len(p) : p[j] = "." \/ p[j] = At(s, k + j - 1)

RECURSIVE NonOverlapping(_, _, _)
\* the indices of the matches of p in s taken scanning left to right from
\* index from: the leftmost one, then the leftmost one that does not overlap it, ...
NonOverlapping(p, s, from) ==
  LET hits == {k \in from..Len(s) : PlainMatchAt(p, s, k)}
  IN  IF hits = {} THEN << >>
      ELSE <<MinOf(hits)>> \o NonOverlapping(p, s, MinOf(hits) + MaxOf({Len(p), 1}))

RECURSIVE EndsInLoneBackslash(_)
\* p ends in a backslash that escapes nothing (and is not itself escaped)
EndsInLoneBackslash(p) ==
  /\ p # << >>
  /\ p[Len(p)] = "\\"
  /\ (Len(p) = 1 \/ p[Len(p) - 1] # "\\" \/ EndsInLoneBackslash(SubSeq(p, 1, Len(p) - 2)))
\* p is no regular expression: a '[' is never closed, or p ends in a lone backslash
DoesNotCompile(p) ==
  \/ \E j \in 1..Len(p) : p[j] = "[" /\ \A k \in (j + 1)..Len(p) : p[k] # "]"
  \/ EndsInLoneBackslash(p)

\* C14: a regex leaf with a valid pattern is found iff it has a match, and
\* its match list holds all non-overlapping matches in left-to-right order;
\* a regex leaf whose pattern does not compile makes the evaluation fail
\* with an error, not with a false verdict.
C14_RegexLeaf ==
  SingleLeaf("regex") =>
    IF DoesNotCompile(TheLeaf.Pattern)
      THEN evaluation.err = "invalid regex pattern"
      ELSE /\ evaluation.err = ""
           /\ evaluation.found = (Len(evaluation.matches) > 0)
           /\ PlainRegex(TheLeaf.Pattern) =>
                LET at == NonOverlapping(TheLeaf.Pattern, content, 0)
                IN  evaluation.matches =
                      [j \in 1..Len(at) |-> Slice(content, at[j], at[j] + Len(TheLeaf.Pattern))]

\* a regex leaf with a wildcard found twice, the matches differing from the
\* pattern and from each other
C14_Witness ==
  /\ SingleLeaf("regex")
  /\ Len(evaluation.matches) = 2
  /\ evaluation.matches[1] # evaluation.matches[2]
  /\ evaluation.matches[1] # TheLeaf.Pattern

\* a regex leaf that does not compile, evaluated
C14_ErrorWitness ==
  /\ SingleLeaf("regex")
  /\ evaluation.err # ""

\* --------------------------------------------------- evaluating a compound
\* the match lists of the leaves, left to right, one after the other
RECURSIVE LeafMatches(_, _)
LeafMatches(leaves, c) ==
  IF leaves = << >> THEN << >>
  ELSE evaluatePatternElement(Head(leaves), c).matches \o LeafMatches(Tail(leaves), c)

\* C15: when no child fails, the match list returned is the concatenation,
\* in order, of the match list of every leaf, whatever the verdict of the
\* leaf, of the nodes above it and of the whole tree: no child is skipped.
C15_AllMatchesCollected ==
  (pc = "evaluated" /\ evaluation.err = "")
    => evaluation.matches = LeafMatches(LeavesOf(result.tree), content)

\* And(x, y) with x not found and y found: the verdict is false, decided by
\* x, and the matches are those of y
C15_Witness ==
  /\ pc = "evaluated" /\ evaluation.err = ""
  /\ result.tree.Operator = "AND"
  /\ Len(result.tree.Patterns) = 2
  /\ ~evaluation.found
  /\ ~EvaluateCompoundPattern(result.tree.Patterns[1].Compound, content).found
  /\ evaluation.matches # << >>

RECURSIVE Holds(_, _)
\* the value of the boolean expression a tree stands for, each leaf replaced
\* by whether it matches c
Holds(node, c) ==
  LET kid(j) == IF node.Patterns[j].Type = "compound"
                  THEN Holds(node.Patterns[j].Compound, c)
                  ELSE evaluatePatternElement(node.Patterns[j], c).found
  IN  IF node.Operator = "AND" THEN \A j \in 1..Len(node.Patterns) : kid(j)
      ELSE \E j \in 1..Len(node.Patterns) : kid(j)

\* C16: when no leaf fails, the verdict is the value of the boolean
\* expression: AND is the conjunction and OR the disjunction of the
\* children's verdicts, at every level.
C16_VerdictIsBooleanValue ==
  (pc = "evaluated" /\ evaluation.err = "")
    => evaluation.found = Holds(result.tree, content)

\* x AND (y OR z) found with y not found and z found
C16_Witness ==
  /\ pc = "evaluated" /\ evaluation.err = ""
  /\ evaluation.found
  /\ result.tree.Operator = "AND"
  /\ Len(result.tree.Patterns) = 2
  /\ result.tree.Patterns[2].Compound.Operator = "OR"
  /\ Len(result.tree.Patterns[2].Compound.Patterns) = 2
  /\ ~EvaluateCompoundPattern(result.tree.Patterns[2].Compound.Patterns[1].Compound, content).found

\* ------------------------------------------------------ runs of the program
\* the configured search is a compound pattern that does not parse
BadCompound ==
  /\ EqualFold(file.SearchConfig.Type, sCompound)
  /\ ParseCompoundPattern(file.SearchConfig.Pattern).err # ""

\* C17: a configuration whose search type is compound, in any letter case,
\* and whose pattern ParseCompoundPattern rejects ends the process at
\* validation: once validateConfig has run, main is at its log.Fatalf, for
\* good, and no browser was launched, no fetch made, no notification sent.
C17_StartupFailFast ==
  (BadCompound /\ mpc \notin {"load", "validate"})
    => /\ mpc = "fatal"
       /\ ~launched
       /\ fetches = 0
       /\ notified = NoNotification
       /\ history = << >>

\* validateConfig rejected a configuration for its compound pattern, the
\* type being written in capitals
C17_Witness ==
  /\ mpc = "fatal"
  /\ config # NoConfig
  /\ file.URL # ""
  /\ file.SearchConfig.Type # sCompound
  /\ BadCompound

\* the search or the evaluation of the fetched content failed
SearchFailed(r) ==
  r.Error \notin {"", "failed to navigate to page", "failed to find XPath elements"}

\* C18: without -once, a runFetch whose search fails leaves a Result with
\* the error, Found false and no matches, sends a notification to the
\* configured channels whatever notify_on is, and returns to main's loop,
\* where the next tick fetches again.
C18_ErrorCycleGoesOn ==
  [][(history' # history /\ SearchFailed(last') /\ ~runOnce)
       => /\ ~last'.Found
          /\ last'.Matches = << >>
          /\ notified'.sent
          /\ notified'.attempted = Configured(config)
          /\ notified'.attempted # << >>
          /\ notified'.message.kind = "error"
          /\ mpc' = "wait"]_vars

\* two cycles whose search failed, one after the other, each with its
\* notification, under notify_on = not_found
C18_Witness ==
  /\ ~runOnce
  /\ mpc = "wait"
  /\ Len(history) = 2
  /\ history[1].error /\ history[1].sent
  /\ SearchFailed(last)
  /\ notified.sent
  /\ file.SearchConfig.NotifyOn = "not_found"

\* C19: after a cycle without error a notification was sent iff the result
\* was found, or, under notify_on = not_found alone, iff it was not found;
\* an empty notify_on and any other value, NOT_FOUND among them, count as
\* found.  Earlier cycles have no part in it.
C19_NotifyPolicy ==
  (history # << >> /\ last.Error = "")
    => notified.sent = (IF file.SearchConfig.NotifyOn = "not_found"
                          THEN ~last.Found ELSE last.Found)

\* notify_on = NOT_FOUND: a cycle that notified (found) and then one that
\* did not (not found)
C19_Witness ==
  /\ file.SearchConfig.NotifyOn = "NOT_FOUND"
  /\ Len(history) = 2
  /\ ~history[1].error /\ history[1].sent
  /\ last.Error = ""
  /\ ~last.Found
  /\ ~notified.sent

\* C20: the message of a notification sent after a cycle without error
\* lists every entry of the result's match list, also when the verdict of a
\* compound pattern is false and some of its leaves matched.
C20_MessageListsAllMatches ==
  (history # << >> /\ last.Error = "" /\ notified.sent)
    => notified.message.listed = last.Matches

\* the regex leaves of a tree, all of which compile
RegexLeavesCompile(tree) ==
  \A k \in 1..Len(LeavesOf(tree)) :
    LeavesOf(tree)[k].Type = "regex" => regexpCompile(LeavesOf(tree)[k].Pattern).ok

\* the pattern is not one of the syntax of its search type
InvalidSyntax(searchConfig) ==
  \/ /\ EqualFold(searchConfig.Type, sCompound)
     /\ \/ ParseCompoundPattern(searchConfig.Pattern).err # ""
        \/ ~RegexLeavesCompile(ParseCompoundPattern(searchConfig.Pattern).tree)
  \/ /\ EqualFold(searchConfig.Type, sRegex)
     /\ ~regexpCompile(searchConfig.Pattern).ok

\* C21: a configuration whose pattern is invalid for its search type (a
\* compound pattern that does not parse, a regex that does not compile, a
\* compound pattern with a regex leaf that does not compile) is rejected by
\* validateConfig: main is at its log.Fatalf and no fetch is ever made.
C21_AllSyntaxValidatedAtStartup ==
  (InvalidSyntax(file.SearchConfig) /\ mpc \notin {"load", "validate"})
    => (mpc = "fatal" /\ fetches = 0)

C22_OnceWitness ==
  /\ runOnce
  /\ mpc = "exited"
  /\ fetches = 1

\* ------------------------------------------------ errors of an evaluation
RECURSIVE Fails(_)
\* the element cannot be evaluated: a regex leaf that does not compile, or
\* a compound with such a leaf somewhere below
Fails(element) ==
  IF element.Type = "compound"
    THEN \E j \in 1..Len(element.Compound.Patterns) : Fails(element.Compound.Patterns[j])
    ELSE element.Type = "regex" /\ DoesNotCompile(element.Pattern)

RECURSIVE FailingPath(_)
\* the numbers, counted from 1, of the first failing child at each level
FailingPath(element) ==
  IF element.Type # "compound" THEN << >>
  ELSE LET first == MinOf({j \in 1..Len(element.Compound.Patterns) :
                             Fails(element.Compound.Patterns[j])})
       IN  <<first>> \o FailingPath(element.Compound.Patterns[first])

\* some child before the first failing one settles the verdict of the node
\* on its own: it is found under OR, or not found under AND
SettledBeforeFailure(node, c) ==
  \E j \in 1..(FailingPath(CompoundElement(node))[1] - 1) :
    Holds(node.Patterns[j].Compound, c) = (node.Operator = "OR")

\* C23: when the evaluation of a child of a compound node fails, the whole
\* evaluation returns an error that names, counted from 1, the first
\* failing child (at every level), with verdict false and no matches, also
\* when the children before it settle the verdict.
C23_FirstChildErrorPropagates ==
  (pc = "evaluated" /\ Fails(CompoundElement(result.tree)))
    => /\ evaluation.err # ""
       /\ evaluation.at = FailingPath(CompoundElement(result.tree))
       /\ ~evaluation.found
       /\ evaluation.matches = << >>

\* an OR whose first child is found and whose second child fails
C23_Witness ==
  /\ pc = "evaluated"
  /\ result.tree.Operator = "OR"
  /\ Len(result.tree.Patterns) = 2
  /\ Fails(CompoundElement(result.tree))
  /\ evaluation.at[1] = 2
  /\ SettledBeforeFailure(result.tree, content)
  /\ evaluation.err # ""

\* an AND whose first child is not found and whose later children fail
C23_AndWitness ==
  /\ pc = "evaluated"
  /\ result.tree.Operator = "AND"
  /\ Fails(CompoundElement(result.tree))
  /\ evaluation.at[1] > 1
  /\ SettledBeforeFailure(result.tree, content)

InToken(p) == \E k \in 1..Len(tokens) : starts[k] <= p /\ p < ends[k]

\* the index of the quote that is open at the end of p
LastOpening(p) ==
  MaxOf({k \in 0..(Len(p) - 1) : OpenQuoteAt(p, k) = "" /\ OpenQuoteAt(p, k + 1) # ""})

\* the errors of the parser
ParserErrors ==
  {"no tokens to parse", "unexpected end of input", "expected closing parenthesis",
   "unexpected token type", "empty pattern element", "empty pattern value"}

\* C25: tokenizePattern reads every input to its end and returns no error
\* of its own; its tokens were read from disjoint pieces of the input in
\* left-to-right order; all it leaves out between them is whitespace; a leaf
\* token is the trimmed text of its piece and is never empty; and a quote
\* that is never closed makes the rest of the input one leaf token.
C25_TokenizerTotal ==
  (pc \in {"tokenize", "done", "evaluated"} /\ pattern # << >>)
    => /\ Len(starts) = Len(tokens) /\ Len(ends) = Len(tokens)
       /\ pc # "tokenize" => (i >= Len(pattern) /\ result.err \in {""} \cup ParserErrors)
       /\ \A k \in 1..Len(tokens) :
            /\ 0 <= starts[k] /\ starts[k] < ends[k] /\ ends[k] <= i
            /\ k < Len(tokens) => ends[k] <= starts[k + 1]
            /\ IF tokens[k].Type = "PATTERN"
                 THEN /\ tokens[k].Value = TrimSpace(Slice(pattern, starts[k], ends[k]))
                      /\ TrimSpace(tokens[k].Value) # << >>
                 ELSE /\ Contains(Slice(pattern, starts[k], ends[k]), tokens[k].Value)
                      /\ \A j \in 1..Len(tokens[k].Value) : ~IsSpace(tokens[k].Value[j])
       /\ \A p \in 0..(MinOf({i, Len(pattern)}) - 1) : ~InToken(p) => IsSpace(At(pattern, p))
       /\ (i >= Len(pattern) /\ OpenQuoteAt(pattern, Len(pattern)) # "")
            => /\ tokens # << >>
               /\ tokens[Len(tokens)].Type = "PATTERN"
               /\ starts[Len(tokens)] <= LastOpening(pattern)
               /\ ends[Len(tokens)] = Len(pattern)

\* a finished tokenization that left out a line break standing between two
\* operators, where a leaf scan found nothing but whitespace
C25_Witness ==
  /\ pc = "done"
  /\ \E p \in 0..(Len(pattern) - 1) : At(pattern, p) = "\n" /\ ~InToken(p)
  /\ Len(tokens) >= 3

\* a finished tokenization of an input with a quote that is never closed,
\* whose last leaf holds an operator
C25_QuoteWitness ==
  /\ pc = "done"
  /\ OpenQuoteAt(pattern, Len(pattern)) # ""
  /\ Len(tokens) >= 3
  /\ Contains(tokens[Len(tokens)].Value, sOR)

\* ------------------------------------------------------ the parser's position
\* C26: a parse that returns a tree has consumed every token: the position
\* parseOrExpression returns to parseTokens is the length of the token list.
C26_ParseConsumesAllTokens ==
  (pc \in {"done", "evaluated"} /\ result.err = "")
    => parseOrExpression(tokens, 0).pos = Len(tokens)

\* ----------------------------------------------------------------- progress
\* the three parse functions
ParseRules == {"OrExpression", "AndExpression", "Primary"}

\* C27: ParseCompoundPattern terminates: every iteration of tokenizePattern's
\* loop moves the index forward and not past the end of the input (so a
\* leaf scan ends after the index it began at), and every call of a parse
\* function that succeeds, at any position of the token list, returns a
\* position beyond the one it was given and not past the end of the list.
C27_StrictProgress ==
  /\ (pc = "tokenize" /\ i < Len(pattern))
       => LET it == TokenizeIteration(pattern, i)
          IN  /\ it.next > i
              /\ it.next <= Len(pattern)
              /\ (it.next = ScanLeaf(pattern, i, FALSE, NoQuote))
                    \/ (it.emit # << >> /\ it.emit[1].Type # "PATTERN")
                    \/ At(pattern, i) \in {" ", "\t"}
  /\ pc = "done"
       => \A rule \in ParseRules : \A pos \in 0..Len(tokens) :
            LET r == parse(rule, tokens, pos, << >>)
            IN  r.err = "" => (r.pos > pos /\ r.pos <= Len(tokens))

\* a finished parse of four tokens or more with a parenthesis, in which
\* calls at later positions succeed as well
C27_Witness ==
  /\ pc = "done"
  /\ result.err = ""
  /\ Len(tokens) >= 4
  /\ \E k \in 1..Len(tokens) : tokens[k].Type = "LPAREN"
  /\ \E pos \in 1..(Len(tokens) - 1) : parsePrimary(tokens, pos).err = ""
  /\ i = Len(pattern)

\* ------------------------------------------------- the pattern during a run
\* validateConfig accepted the configuration, whose search type is compound
ValidatedCompound ==
  /\ mpc \in {"launch", "first", "wait", "exited", "crashed"}
  /\ EqualFold(config.SearchConfig.Type, sCompound)

\* C28: once validateConfig has accepted a configuration of type compound,
\* pattern and type stay as they are in the file, the pattern parses to the
\* same tree in every cycle, and no Result carries the error "invalid
\* compound pattern".
C28_ReparseCannotFail ==
  /\ [](ValidatedCompound
          => /\ config.SearchConfig.Pattern = file.SearchConfig.Pattern
             /\ config.SearchConfig.Type = file.SearchConfig.Type
             /\ ParseCompoundPattern(config.SearchConfig.Pattern).err = ""
             /\ last.Error # "invalid compound pattern")
  /\ [][ValidatedCompound
          => /\ config' = config
             /\ ParseCompoundPattern(config'.SearchConfig.Pattern)
                  = ParseCompoundPattern(config.SearchConfig.Pattern)]_vars

\* two cycles of a run with type COMPOUND that evaluated the parsed pattern
C28_Witness ==
  /\ ValidatedCompound
  /\ config.SearchConfig.Type # sCompound
  /\ Len(history) = 2
  /\ ~history[1].error
  /\ last.Error = ""
  /\ last.Found

\* ------------------------------------------------ the channels of a cycle
\* the notify condition of a cycle with Result r
NotifyCondition(r) ==
  \/ r.Error # ""
  \/ IF file.SearchConfig.NotifyOn = "not_found" THEN ~r.Found ELSE r.Found

\* the channels the file configures, in the order email, Discord, Slack
ConfiguredInFile ==
  (IF file.Notifications.Email # NilChannel THEN <<"email">> ELSE << >>)
    \o (IF file.Notifications.Discord # NilChannel THEN <<"discord">> ELSE << >>)
    \o (IF file.Notifications.Slack # NilChannel THEN <<"slack">> ELSE << >>)

\* s holds the elements of t that are not in the set out, in t's order
Without(t, out) == SelectSeq(t, LAMBDA ch : ch \notin out)

\* C29: in a cycle whose notify condition holds, SendNotification tries
\* every configured channel once, in the order email, Discord, Slack,
\* whichever of them fail, and returns an error iff some attempt failed; in
\* a cycle whose condition does not hold it tries none; and whatever it
\* returns, a run without -once goes back to wait for the next tick.
C29_EveryChannelTried ==
  [][history' # history
       => /\ IF NotifyCondition(last')
               THEN /\ notified'.attempted = ConfiguredInFile
                    /\ \E out \in SUBSET {"email", "discord", "slack"} :
                         notified'.sendChannels = Without(ConfiguredInFile, out)
                    /\ (notified'.err # "") = (notified'.sendChannels # notified'.attempted)
               ELSE /\ notified'.attempted = << >>
                    /\ notified'.sendChannels = << >>
                    /\ notified'.err = ""
          /\ ~runOnce => mpc' = "wait"]_vars

\* a cycle in which the send to Discord failed and the one to Slack, tried
\* after it, succeeded, after a cycle whose notification failed as well
C29_Witness ==
  /\ mpc = "wait"
  /\ Len(history) = 2
  /\ history[1].failed
  /\ notified.attempted = <<"discord", "slack">>
  /\ notified.sendChannels = <<"slack">>
  /\ notified.err # ""

\* ------------------------------------------------------- normalized trees
RECURSIVE Normalized(_)
\* the element with every compound of one child replaced by that child
Normalized(element) ==
  IF element.Type # "compound" THEN element
  ELSE IF Len(element.Compound.Patterns) = 1
    THEN Normalized(element.Compound.Patterns[1])
  ELSE CompoundElement(
         CompoundPattern(element.Compound.Operator,
                         [j \in 1..Len(element.Compound.Patterns) |->
                            Normalized(element.Compound.Patterns[j])]))

\* evaluatePatternElement for any element
EvaluateElement(element, c) ==
  IF element.Type = "compound"
    THEN EvaluateCompoundPattern(element.Compound, c)
    ELSE evaluatePatternElement(element, c)

RECURSIVE Wrappers(_)
\* the number of compounds of one child in the tree of the element
Wrappers(element) ==
  IF element.Type # "compound" THEN 0
  ELSE LET kids == element.Compound.Patterns
           below[k \in 0..Len(kids)] ==
             IF k = 0 THEN 0 ELSE below[k - 1] + Wrappers(kids[k])
       IN  below[Len(kids)] + (IF Len(kids) = 1 THEN 1 ELSE 0)

\* C30: the evaluation of a parsed tree gives the verdict, the match list
\* and the error or absence of error that the evaluation of its normalized
\* tree gives, in which no compound has a single child.
C30_WrappersDoNotMatter ==
  pc = "evaluated"
    => LET plain == EvaluateElement(Normalized(CompoundElement(result.tree)), content)
       IN  /\ evaluation.found = plain.found
           /\ evaluation.matches = plain.matches
           /\ (evaluation.err = "") = (plain.err = "")

\* an evaluation that found matches in a tree of two levels with three
\* wrappers, the normalized tree being smaller
C30_Witness ==
  /\ pc = "evaluated"
  /\ evaluation.err = ""
  /\ evaluation.found
  /\ Len(evaluation.matches) >= 2
  /\ Wrappers(CompoundElement(result.tree)) >= 3
  /\ \E j \in 1..Len(result.tree.Patterns) :
       Len(result.tree.Patterns[j].Compound.Patterns) >= 2

\* an evaluation that failed in a wrapped regex leaf
C30_ErrorWitness ==
  /\ pc = "evaluated"
  /\ evaluation.err # ""
  /\ Wrappers(CompoundElement(result.tree)) >= 2

====
